---- MODULE Spec2Model ----
(***************************************************************************)
(* Food Waste Saver API (src/main.py, src/schemas.py).                     *)
(*                                                                         *)
(* The state is the MongoDB store (collections "offer" and "reservation"), *)
(* the ObjectId counter of every server process, the UTC clock, and one    *)
(* record per HTTP request holding its position in its handler and its     *)
(* response.  Requests are handled concurrently: a handler step is one     *)
(* store operation, and steps of different requests interleave freely.     *)
(*                                                                         *)
(* A city (the string the listing matches a regular expression against)    *)
(* is a sequence of one-character strings; other strings are atoms.  An    *)
(* Optional value is a set: {} is None and {v} is the value v.             *)
(***************************************************************************)
EXTENDS Integers, Sequences, FiniteSets, TLC

(* ------------------------------- bounds -------------------------------- *)

MaxReqs == 3      \* HTTP requests in one run
MaxTime == 1      \* the clock runs 0..MaxTime
MaxQty == 2       \* largest quantity an offer is created with
NumProcs == 2     \* server processes

Reqs == 1..MaxReqs
Procs == 1..NumProcs
Times == 0..MaxTime

(* ------------------------------ ObjectId ------------------------------- *)

\* bson.ObjectId: 4 bytes of timestamp, 5 random bytes fixed per process and
\* a 3-byte counter that starts at a random value and wraps around.
IncMod == 16777216

\* The counter values a process may start from (random.randint(0, 0xFFFFFF)):
\* a low value and the last one before the counter wraps.
IncSeeds == {0, IncMod - 1}

ObjectIdOf(t, p, i) == [ts |-> t, rand |-> p, inc |-> i]

\* str(ObjectId): 24 hex digits, 8 of timestamp, 10 of random, 6 of counter;
\* kept as the three digit groups.
Str(oid) == <<oid.ts, oid.rand, oid.inc>>

\* ObjectId(s) accepts exactly the 24-hex-digit strings and raises InvalidId
\* for every other string.
IsValidObjectIdStr(s) == Len(s) = 3

ParseObjectId(s) == ObjectIdOf(s[1], s[2], s[3])

\* A string that is not 24 hex digits, e.g. "0".
Malformed == <<0>>

\* A well-formed id that no process ever mints (its random part is no process).
GhostId == ObjectIdOf(0, 0, 0)

\* (mutant) s[:6].upper(): the first digits, which are the timestamp's
First6Upper(s) == s[1]

\* s[-6:].upper() of the 24 hex digits: the 6 digits of the counter
\* (upper-casing hex digits is one-to-one, so the group stands for itself).
Last6Upper(s) == s[3]

PickupCodeOf(oid) == Last6Upper(Str(oid))

(* ------------------------ regular expressions -------------------------- *)

LowerChar(c) ==
    CASE c = "A" -> "a"
      [] c = "B" -> "b"
      [] c = "X" -> "x"
      [] OTHER -> c

Lower(s) == [i \in 1..Len(s) |-> LowerChar(s[i])]

RECURSIVE SplitAlt(_)
\* the alternatives of a pattern, split at every "|"
SplitAlt(p) ==
    IF \A i \in 1..Len(p) : p[i] # "|"
    THEN <<p>>
    ELSE LET k == CHOOSE i \in 1..Len(p) :
                      p[i] = "|" /\ \A j \in 1..(i - 1) : p[j] # "|"
         IN  <<SubSeq(p, 1, k - 1)>> \o SplitAlt(SubSeq(p, k + 1, Len(p)))

RECURSIVE Atoms(_)
\* the atoms of one alternative: a character, starred when "*" follows it
Atoms(s) ==
    IF s = <<>> THEN <<>>
    ELSE IF Len(s) >= 2 /\ s[2] = "*"
         THEN <<[ch |-> s[1], star |-> TRUE]>> \o Atoms(SubSeq(s, 3, Len(s)))
         ELSE <<[ch |-> s[1], star |-> FALSE]>> \o Atoms(Tail(s))

\* positions reached from the positions P of s by matching the atom ch once,
\* ignoring case (option "i")
One(ch, P, s) ==
    CASE ch = "^" -> {p \in P : p = 0}
      [] ch = "$" -> {p \in P : p = Len(s)}
      [] ch = "." -> {p + 1 : p \in {q \in P : q < Len(s)}}
      [] OTHER -> {p + 1 : p \in {q \in P : q < Len(s) /\
                                     LowerChar(s[q + 1]) = LowerChar(ch)}}

RECURSIVE Closure(_, _, _)
\* positions reached by matching ch zero or more times
Closure(ch, P, s) ==
    LET Q == P \cup One(ch, P, s)
    IN  IF Q = P THEN P ELSE Closure(ch, Q, s)

RECURSIVE Run(_, _, _)
Run(atoms, P, s) ==
    IF atoms = <<>> THEN P
    ELSE Run(Tail(atoms),
             IF Head(atoms).star THEN Closure(Head(atoms).ch, P, s)
                                 ELSE One(Head(atoms).ch, P, s),
             s)

\* {"$regex": p, "$options": "i"}: p matches somewhere in s
RegexSearch(p, s) ==
    LET alts == SplitAlt(p)
    IN  \E i \in 1..Len(alts) : Run(Atoms(alts[i]), 0..Len(s), s) # {}

(* ------------------------------- inputs -------------------------------- *)

Missing == "<missing>"

CityAb == <<"A", "b">>
CityAx == <<"A", "x">>

BaseOffer ==
    [store_id |-> "s1", title |-> "bag", city |-> CityAb,
     original_price |-> 2, price |-> 1, quantity |-> 1,
     pickup_start |-> 0, pickup_end |-> MaxTime, tags |-> <<"vegan">>]

\* bodies of POST /offers that differ in the numeric fields
OfferInputs ==
    {[BaseOffer EXCEPT !.quantity = q] : q \in (-1)..MaxQty}
    \cup {[BaseOffer EXCEPT !.price = -1],
          [BaseOffer EXCEPT !.original_price = -1],
          [BaseOffer EXCEPT !.store_id = Missing]}

\* bodies of POST /offers that differ in what a listing filters on
ListedOfferInputs ==
    {BaseOffer,
     [BaseOffer EXCEPT !.quantity = 0],
     [BaseOffer EXCEPT !.city = CityAx, !.pickup_end = 0,
                       !.tags = <<"bakery", "vegan">>]}

\* values of the city query parameter (None, or a string)
CityFilters ==
    {{}, {<<"a", ".">>}, {<<"a", "b", "*">>}, {<<"q", "|", "x">>}}

\* query strings of GET /offers: city alone, tag alone and both
ListInputs ==
    {[city |-> c, tag |-> {}] : c \in CityFilters}
    \cup {[city |-> {}, tag |-> {"bakery"}],
          [city |-> {<<"a", "b">>}, tag |-> {"vegan"}]}

Names == {"ann"}
Phones == {"555"}

(* -------------------------------- state -------------------------------- *)

VARIABLES
    db,           \* whether the store handle is configured (database.db is not None)
    clock,        \* datetime.utcnow()
    inc,          \* the ObjectId counter of every server process
    offer,        \* collection "offer": a set of documents
    reservation,  \* collection "reservation": a set of documents
    req           \* per request: handler, position, inputs, response

vars == <<db, clock, inc, offer, reservation, req>>

NoReq ==
    [kind |-> "none", pc |-> "new", proc |-> 0, payload |-> {}, now |-> 0,
     res |-> {}, status |-> 0, body |-> {}]

Init ==
    /\ db \in BOOLEAN
    /\ clock = 0
    /\ inc \in [Procs -> IncSeeds]
    /\ offer = {}
    /\ reservation = {}
    /\ req = [r \in Reqs |-> NoReq]

\* requests are numbered in the order they arrive
CanStart(r) ==
    /\ req[r].kind = "none"
    /\ \A q \in Reqs : q < r => req[q].kind # "none"

\* ObjectId() in process p
NewObjectId(p) == ObjectIdOf(clock, p, inc[p])

NextInc(i) == (i + 1) % IncMod

Respond(r, kind, p, payload, status, body) ==
    [req[r] EXCEPT !.kind = kind, !.pc = "done", !.proc = p,
                   !.payload = payload, !.status = status, !.body = body]

ErrorBody(detail) == {[detail |-> detail]}

(* --------------------------- POST /offers ------------------------------ *)

\* Request validation against OfferCreate: every required field is present
\* (the numeric fields carry no range constraint)
OfferCreateValid(payload) ==
    /\ payload.store_id # Missing
    /\ payload.title # Missing

\* The constraints the collection schema Offer declares
OfferSchemaValid(payload) ==
    /\ payload.original_price >= 0
    /\ payload.price >= 0
    /\ payload.quantity >= 0

\* create_document("offer", data): the stored document
OfferDoc(id, payload) ==
    [_id |-> id, store_id |-> payload.store_id, title |-> payload.title,
     city |-> payload.city, original_price |-> payload.original_price,
     price |-> payload.price, quantity |-> payload.quantity,
     pickup_start |-> payload.pickup_start, pickup_end |-> payload.pickup_end,
     tags |-> payload.tags, updated_at |-> clock]

\* create_offer
CreateOffer(r, p, payload) ==
    /\ CanStart(r)
    /\ IF ~OfferCreateValid(payload)
       THEN /\ req' = [req EXCEPT ![r] =
                           Respond(r, "offer", p, payload, 422,
                                   ErrorBody("validation"))]
            /\ UNCHANGED <<offer, inc>>
       ELSE IF ~db
       THEN /\ req' = [req EXCEPT ![r] =
                           Respond(r, "offer", p, payload, 500,
                                   ErrorBody("Database not configured"))]
            /\ UNCHANGED <<offer, inc>>
       ELSE LET id == NewObjectId(p)
            IN  /\ offer' = offer \cup {OfferDoc(id, payload)}
                /\ inc' = [inc EXCEPT ![p] = NextInc(@)]
                /\ req' = [req EXCEPT ![r] =
                               Respond(r, "offer", p, payload, 201,
                                       {[id |-> Str(id)]})]
    /\ UNCHANGED <<db, clock, reservation>>

(* ------------------------ POST /reservations --------------------------- *)

\* offer ids a client may send: the ids it was given, a well-formed id of no
\* offer, and a string that is no ObjectId
OfferIds == {Str(d._id) : d \in offer}

ReserveTargets == OfferIds \cup {Str(GhostId), Malformed}

\* (mutant) the filter with "$gte" for "$gt"
ReserveFilterGte(d, id) == d._id = id /\ d.quantity >= 0

\* the filter {"_id": id, "quantity": {"$gt": 0}}
ReserveFilter(d, id) == d._id = id /\ d.quantity > 0

\* (mutant) the update with {"$inc": {"quantity": -2}}
ReserveUpdateTwo(d) == [d EXCEPT !.quantity = @ - 2, !.updated_at = clock]

\* the update {"$inc": {"quantity": -1}, "$set": {"updated_at": utcnow()}}
ReserveUpdate(d) == [d EXCEPT !.quantity = @ - 1, !.updated_at = clock]

\* find_one_and_update(filter, update, return_document=True): the collection
\* after the call and the document returned (None when nothing matches), as
\* one indivisible store operation
FindOneAndUpdate(id) ==
    LET hit == {d \in offer : ReserveFilter(d, id)}
    IN  IF hit = {}
        THEN [coll |-> offer, res |-> {}]
        ELSE LET d == CHOOSE x \in hit : TRUE
             IN  [coll |-> (offer \ {d}) \cup {ReserveUpdate(d)},
                  res |-> {ReserveUpdate(d)}]

\* (mutant) the check of the returned document left out
NotResNever(res) == FALSE

\* "if not res"
NotRes(res) == res = {}

\* create_reservation up to the stock decrement
ReserveStart(r, p, payload) ==
    /\ CanStart(r)
    /\ IF ~db
       THEN /\ req' = [req EXCEPT ![r] =
                           Respond(r, "reserve", p, payload, 500,
                                   ErrorBody("Database not configured"))]
            /\ UNCHANGED offer
       ELSE IF ~IsValidObjectIdStr(payload.offer_id)
       THEN \* ObjectId(payload.offer_id) raises InvalidId, which nothing catches
            /\ req' = [req EXCEPT ![r] =
                           Respond(r, "reserve", p, payload, 500,
                                   ErrorBody("Internal Server Error"))]
            /\ UNCHANGED offer
       ELSE LET out == FindOneAndUpdate(ParseObjectId(payload.offer_id))
            IN  /\ offer' = out.coll
                /\ IF NotRes(out.res)
                   THEN req' = [req EXCEPT ![r] =
                                    Respond(r, "reserve", p, payload, 400,
                                            ErrorBody("Offer sold out or not found"))]
                   ELSE req' = [req EXCEPT ![r] =
                                    [@ EXCEPT !.kind = "reserve",
                                              !.pc = "decremented", !.proc = p,
                                              !.payload = payload,
                                              !.res = out.res]]
    /\ UNCHANGED <<db, clock, inc, reservation>>

\* the reservation document handed to create_document
ReservationDoc(id, payload, code) ==
    [_id |-> id, offer_id |-> payload.offer_id, user_name |-> payload.user_name,
     user_phone |-> payload.user_phone, status |-> "reserved",
     pickup_code |-> code]

\* create_reservation from the pickup code on, the write accepted
InsertOk(r) ==
    LET p == req[r].proc
        code == PickupCodeOf(NewObjectId(p))
        id == ObjectIdOf(clock, p, NextInc(inc[p]))
    IN  /\ req[r].kind = "reserve" /\ req[r].pc = "decremented"
        /\ reservation' = reservation \cup {ReservationDoc(id, req[r].payload, code)}
        /\ inc' = [inc EXCEPT ![p] = NextInc(NextInc(@))]
        /\ req' = [req EXCEPT ![r] =
                       [@ EXCEPT !.pc = "done", !.status = 201,
                                 !.body = {[id |-> Str(id), pickup_code |-> code]}]]
        /\ UNCHANGED <<db, clock, offer>>

\* (mutant) the failed write compensated by giving the unit back
InsertFailedRollback(r) ==
    LET p == req[r].proc
        ids == {u._id : u \in req[r].res}
    IN  /\ req[r].kind = "reserve" /\ req[r].pc = "decremented"
        /\ inc' = [inc EXCEPT ![p] = NextInc(@)]
        /\ offer' = {IF d._id \in ids THEN [d EXCEPT !.quantity = @ + 1] ELSE d :
                        d \in offer}
        /\ req' = [req EXCEPT ![r] =
                       [@ EXCEPT !.pc = "done", !.status = 500,
                                 !.body = ErrorBody("Internal Server Error")]]
        /\ UNCHANGED <<db, clock, reservation>>

\* create_reservation from the pickup code on, the write failing: the
\* exception leaves the handler, which holds no handler for it
InsertFailed(r) ==
    LET p == req[r].proc
    IN  /\ req[r].kind = "reserve" /\ req[r].pc = "decremented"
        /\ inc' = [inc EXCEPT ![p] = NextInc(@)]
        /\ req' = [req EXCEPT ![r] =
                       [@ EXCEPT !.pc = "done", !.status = 500,
                                 !.body = ErrorBody("Internal Server Error")]]
        /\ UNCHANGED <<db, clock, offer, reservation>>

(* ----------------------------- GET /offers ----------------------------- *)

\* "if city:" / "if tag:": a query parameter that is None or empty adds nothing
Given(opt) == \E v \in opt : Len(v) > 0

\* f"^{city}$"
CityPattern(city) == <<"^">> \o city \o <<"$">>

\* (mutant) filter_dict with {"quantity": {"$gte": 0}}
ListFilterGte(d, now, city, tag) ==
    /\ d.pickup_end >= now
    /\ d.quantity >= 0
    /\ Given(city) => \E c \in city : RegexSearch(CityPattern(c), d.city)
    /\ Given(tag) => \E t \in tag : \E i \in 1..Len(d.tags) : d.tags[i] = t

\* filter_dict of list_offers applied to one document
ListFilter(d, now, city, tag) ==
    /\ d.pickup_end >= now
    /\ d.quantity > 0
    /\ Given(city) => \E c \in city : RegexSearch(CityPattern(c), d.city)
    /\ Given(tag) => \E t \in tag : \E i \in 1..Len(d.tags) : d.tags[i] = t

\* datetime.isoformat()
IsoFormat(t) == <<"T", t>>

\* serialize(doc): the id as a string, datetimes as ISO-8601 strings
Serialize(d) ==
    [id |-> Str(d._id), store_id |-> d.store_id, title |-> d.title,
     city |-> d.city, original_price |-> d.original_price, price |-> d.price,
     quantity |-> d.quantity, pickup_start |-> IsoFormat(d.pickup_start),
     pickup_end |-> IsoFormat(d.pickup_end), tags |-> d.tags,
     updated_at |-> IsoFormat(d.updated_at)]

\* list_offers up to "now = datetime.utcnow()"
ListCall(r, p, q) ==
    /\ CanStart(r)
    /\ IF ~db
       THEN req' = [req EXCEPT ![r] =
                        Respond(r, "list", p, q, 500,
                                ErrorBody("Database not configured"))]
       ELSE req' = [req EXCEPT ![r] =
                        [@ EXCEPT !.kind = "list", !.pc = "now", !.proc = p,
                                  !.payload = q, !.now = clock]]
    /\ UNCHANGED <<db, clock, inc, offer, reservation>>

\* list_offers from get_documents("offer", filter_dict) on
ListRead(r) ==
    /\ req[r].kind = "list" /\ req[r].pc = "now"
    /\ LET found == {d \in offer :
                        ListFilter(d, req[r].now, req[r].payload.city,
                                   req[r].payload.tag)}
       IN  req' = [req EXCEPT ![r] =
                       [@ EXCEPT !.pc = "done", !.status = 200, !.res = found,
                                 !.body = {Serialize(d) : d \in found}]]
    /\ UNCHANGED <<db, clock, inc, offer, reservation>>

(* -------------------------------- clock -------------------------------- *)

Tick ==
    /\ clock < MaxTime
    /\ clock' = clock + 1
    /\ UNCHANGED <<db, inc, offer, reservation, req>>

(* ----------------------------- specification --------------------------- *)

ReservePayloads(targets) ==
    [offer_id : targets, user_name : Names, user_phone : Phones]

\* the reservation flow served by one process: every request body, and the
\* unfiltered listing
Next ==
    \/ \E r \in Reqs, payload \in OfferInputs : CreateOffer(r, 1, payload)
    \/ \E r \in Reqs, payload \in ReservePayloads(ReserveTargets) :
           ReserveStart(r, 1, payload)
    \/ \E r \in Reqs : InsertOk(r)
    \/ \E r \in Reqs : InsertFailed(r)
    \/ \E r \in Reqs : ListCall(r, 1, [city |-> {}, tag |-> {}])
    \/ \E r \in Reqs : ListRead(r)
    \/ Tick

InitOne == Init /\ inc = [p \in Procs |-> 0]

Spec == InitOne /\ [][Next]_vars

\* the pickup codes: reservations of well-stocked offers served by several
\* processes, whose counters start anywhere
NextCodes ==
    \/ \E r \in Reqs, p \in Procs :
           CreateOffer(r, p, [BaseOffer EXCEPT !.quantity = MaxQty])
    \/ \E r \in Reqs, p \in Procs, payload \in ReservePayloads(OfferIds) :
           ReserveStart(r, p, payload)
    \/ \E r \in Reqs : InsertOk(r)
    \/ \E r \in Reqs : InsertFailed(r)
    \/ Tick

InitCodes == Init /\ db

SpecCodes == InitCodes /\ [][NextCodes]_vars

\* the listing: every query string, against offers that differ in city, tags,
\* pickup window and stock, while reservations take stock away
NextList ==
    \/ \E r \in Reqs, payload \in ListedOfferInputs : CreateOffer(r, 1, payload)
    \/ \E r \in Reqs, payload \in ReservePayloads(OfferIds) :
           ReserveStart(r, 1, payload)
    \/ \E r \in Reqs : InsertOk(r)
    \/ \E r \in Reqs, q \in ListInputs : ListCall(r, 1, q)
    \/ \E r \in Reqs : ListRead(r)
    \/ Tick

InitList == InitOne /\ db

SpecList == InitList /\ [][NextList]_vars

(* ------------------------- history read-outs --------------------------- *)

Min(a, b) == IF a < b THEN a ELSE b
Max(a, b) == IF a > b THEN a ELSE b

\* the quantity offer d was created with: the body of the request that made it
CreatedQuantity(d) ==
    LET r == CHOOSE x \in Reqs : /\ req[x].kind = "offer"
                                 /\ req[x].status = 201
                                 /\ req[x].body = {[id |-> Str(d._id)]}
    IN  req[r].payload.quantity

\* the reserve requests received for offer d
ReservesOf(d) ==
    {r \in Reqs : req[r].kind = "reserve" /\ req[r].payload.offer_id = Str(d._id)}

\* request r's find_one_and_update returned a document: its decrement committed
Committed(r) == req[r].kind = "reserve" /\ req[r].res # {}

InFlight(r) == req[r].kind # "none" /\ req[r].pc # "done"

WriteFailed(r) == Committed(r) /\ req[r].pc = "done" /\ req[r].status = 500

WithStatus(R, code) == {r \in R : req[r].pc = "done" /\ req[r].status = code}

ReservationsOf(d) == {x \in reservation : x.offer_id = Str(d._id)}

(* -------------------------------- claims ------------------------------- *)

\* C1 (as stated): for an offer created with quantity Q >= 0, once the N reserve
\* requests for it have all completed, exactly min(N, Q) of them answered 201,
\* the other N - min(N, Q) answered 400, and the quantity is max(Q - N, 0).
C1_ExactlyMinSucceed ==
    \A d \in offer :
        LET R == ReservesOf(d)
            N == Cardinality(R)
            Q == CreatedQuantity(d)
        IN  (Q >= 0 /\ \A r \in R : req[r].pc = "done") =>
                /\ Cardinality(WithStatus(R, 201)) = Min(N, Q)
                /\ Cardinality(WithStatus(R, 400)) = N - Min(N, Q)
                /\ d.quantity = Max(Q - N, 0)

\* C1 (amended): for an offer created with quantity Q >= 0, once the N reserve
\* requests for it have all completed, exactly min(N, Q) of them committed the
\* decrement, each of those answered 201 unless its reservation write failed
\* (then 500), the other N - min(N, Q) answered 400, and the quantity is
\* max(Q - N, 0).
C1_ExactlyMinCommit ==
    \A d \in offer :
        LET R == ReservesOf(d)
            N == Cardinality(R)
            Q == CreatedQuantity(d)
            won == {r \in R : Committed(r)}
        IN  (Q >= 0 /\ \A r \in R : req[r].pc = "done") =>
                /\ Cardinality(won) = Min(N, Q)
                /\ \A r \in won : req[r].status = 201 \/ WriteFailed(r)
                /\ WithStatus(R, 201) \subseteq won
                /\ WithStatus(R, 400) = R \ won
                /\ d.quantity = Max(Q - N, 0)

\* the last unit raced for: created with 1, two requests, one 201 and one 400
C1_Witness ==
    \E d \in offer :
        /\ CreatedQuantity(d) = 1
        /\ Cardinality(ReservesOf(d)) = 2
        /\ Cardinality(WithStatus(ReservesOf(d), 201)) = 1
        /\ Cardinality(WithStatus(ReservesOf(d), 400)) = 1
        /\ d.quantity = 0

\* C2: every stored offer's quantity is >= 0.
C2_QuantityNonNegative == \A d \in offer : d.quantity >= 0

\* C3: for every offer the reservation records naming it are at most the
\* committed decrements of its quantity, every reservation names a stored
\* offer, and when no write failed and no request is in flight the records,
\* the committed decrements and (created quantity - quantity) are equal.
C3_NoOrphans ==
    /\ \A x \in reservation : \E d \in offer : x.offer_id = Str(d._id)
    /\ \A d \in offer :
          LET n == Cardinality(ReservationsOf(d))
              dec == Cardinality({r \in ReservesOf(d) : Committed(r)})
          IN  /\ n <= dec
              /\ (\A r \in Reqs : ~InFlight(r) /\ ~WriteFailed(r)) =>
                     (n = dec /\ CreatedQuantity(d) - d.quantity = n)

\* one reservation written, a second decrement committed and not yet recorded
C3_Witness ==
    \E d \in offer :
        /\ Cardinality(ReservationsOf(d)) = 1
        /\ CreatedQuantity(d) - d.quantity = 2
        /\ \E r \in ReservesOf(d) : req[r].pc = "decremented"

\* C4: with the store configured, a reserve request whose offer id matches no
\* stored offer, or whose offer has quantity 0, answers 400 and changes neither
\* collection.
C4_UnavailableIs400 ==
    [][\A r \in Reqs :
          (/\ req[r].kind = "none" /\ req'[r].kind = "reserve"
           /\ db
           /\ \/ req'[r].payload.offer_id \notin OfferIds
              \/ \E d \in offer : /\ Str(d._id) = req'[r].payload.offer_id
                                  /\ d.quantity = 0)
          => (/\ req'[r].pc = "done" /\ req'[r].status = 400
              /\ offer' = offer /\ reservation' = reservation)]_vars

\* C5: with the store configured, POST /offers answers 422 to every body with
\* a negative quantity, price or original_price, and no stored offer has one.
C5_NegativeRejected ==
    /\ \A r \in Reqs :
          (db /\ req[r].kind = "offer" /\ ~OfferSchemaValid(req[r].payload))
              => req[r].status = 422
    /\ \A d \in offer : d.quantity >= 0 /\ d.price >= 0 /\ d.original_price >= 0

\* C6: the step in which a listing reads the store returns no offer whose
\* pickup_end is earlier than the time of the call or whose quantity is 0 in
\* the store at that step, whatever the city and tag filters.
C6_ListingExcludes ==
    [][\A r \in Reqs :
          (req[r].pc = "now" /\ req'[r].pc = "done") =>
              /\ req'[r].res \subseteq offer
              /\ \A d \in req'[r].res :
                    d.quantity # 0 /\ ~(d.pickup_end < req[r].now)]_vars

\* a listing with a filter returned an offer and left out an offer that
\* passes its city and tag filters but is expired or has no stock left
C6_Witness ==
    \E r \in Reqs :
        /\ req[r].kind = "list" /\ req[r].pc = "done"
        /\ Given(req[r].payload.city) \/ Given(req[r].payload.tag)
        /\ req[r].res # {}
        /\ \E d \in offer \ req[r].res :
              /\ ListFilter([d EXCEPT !.quantity = 1], d.pickup_end,
                            req[r].payload.city, req[r].payload.tag)
              /\ d.quantity = 0 \/ d.pickup_end < req[r].now

\* C7 (as stated): no two reservation records carry the same pickup_code.
C7_UniqueCodes ==
    \A a, b \in reservation : a # b => a.pickup_code # b.pickup_code

\* C7 (amended): two reservation records written by the same server process
\* carry different pickup codes (as long as that process mints fewer than
\* 2^24 ObjectIds between them); records of different processes may share one.
C7_UniqueCodesPerProcess ==
    \A a, b \in reservation :
        (a # b /\ a._id.rand = b._id.rand) => a.pickup_code # b.pickup_code

\* two reservations of one process, its counter wrapping between them
C7_Witness ==
    \E a, b \in reservation :
        /\ a._id.rand = b._id.rand
        /\ a.pickup_code = IncMod - 1
        /\ b.pickup_code < a.pickup_code

\* C8: a listing with a city filter returns exactly the active offers (those
\* passing the other filters) whose city equals the filter ignoring case.
C8_CityExact ==
    [][\A r \in Reqs :
          (req[r].pc = "now" /\ req'[r].pc = "done" /\ Given(req[r].payload.city))
          => req'[r].res =
                 {d \in offer :
                     /\ ListFilter(d, req[r].now, {}, req[r].payload.tag)
                     /\ \E c \in req[r].payload.city : Lower(d.city) = Lower(c)}]_vars

\* C9: a reserve request whose reservation write failed after its decrement
\* committed ended in failure, its decrement still counts in the offer's
\* quantity, and no reservation record exists for it.
C9_NoRollback ==
    /\ \A r \in Reqs : WriteFailed(r) =>
          \A d \in offer : \A u \in req[r].res :
              d._id = u._id => d.quantity <= u.quantity
    /\ \A d \in offer :
          /\ CreatedQuantity(d) - d.quantity =
                 Cardinality({r \in ReservesOf(d) : Committed(r)})
          /\ Cardinality(ReservationsOf(d)) =
                 Cardinality(WithStatus(ReservesOf(d), 201))

\* a request ended 500 after its decrement; the quantity is one lower
C9_Witness ==
    \E d \in offer : \E r \in ReservesOf(d) :
        /\ WriteFailed(r)
        /\ d.quantity = CreatedQuantity(d) - 1
        /\ ReservationsOf(d) = {}

\* C10 (as stated): every change of an offer's quantity belongs to a reserve
\* request for it that succeeded (or is still running): failed reserve
\* requests have left the quantity unchanged.
C10_OnlySuccessfulReserves ==
    \A d \in offer :
        CreatedQuantity(d) - d.quantity =
            Cardinality({r \in ReservesOf(d) :
                            req[r].pc = "decremented" \/
                            (req[r].pc = "done" /\ req[r].status = 201)})

\* C10 (amended): an offer stays in the store, and its quantity changes only
\* in the step in which a reserve request for that offer commits its
\* decrement, by exactly -1, with no field other than quantity and updated_at
\* changed; every other step (listings, offer creations, reserve requests
\* answered 400 or failing before the store, requests for another offer,
\* reservation writes, failed or not) leaves the offer as it is.
C10_QuantityFrame ==
    [][\A d \in offer : \E e \in offer' :
          /\ e._id = d._id
          /\ \/ e = d
             \/ /\ e = [d EXCEPT !.quantity = d.quantity - 1,
                                  !.updated_at = e.updated_at]
                /\ \E r \in Reqs :
                      /\ req[r].kind = "none"
                      /\ req'[r].kind = "reserve"
                      /\ req'[r].pc = "decremented"
                      /\ req'[r].payload.offer_id = Str(d._id)]_vars

\* an offer reserved once, later than it was created, beside a listing
C10_Witness ==
    \E d \in offer :
        /\ d.quantity = CreatedQuantity(d) - 1
        /\ d.updated_at > d._id.ts
        /\ \E r \in Reqs : req[r].kind = "list" /\ req[r].pc = "done"

====
